---------------------------- MODULE Spec2Model ----------------------------
(***************************************************************************)
(* Model of the MCP webhook server (src/mcp/mcp_server.py): the in-memory  *)
(* issue store, the webhook intake handler with its deferred               *)
(* classification task, the read handlers, and the error classifier.       *)
(*                                                                         *)
(* Execution model.  The application is an asyncio (FastAPI) program.      *)
(* Handlers declared "async def" (receive_sentry_webhook, process_issue)   *)
(* run on the single event-loop thread and give up control only at an      *)
(* await; the variable loop names the request whose code currently     *)
(* occupies the event loop between two of its steps.  Handlers declared    *)
(* with a plain def (list_issues, get_issue) are executed by a worker     *)
(* thread, so their bodies may run between any two statements of the code  *)
(* on the event loop; the value they return is a reference to the live     *)
(* store object, which is turned into the response afterwards, on the      *)
(* event loop.                                                             *)
(*                                                                         *)
(* Python values are tagged records ([k |-> "str", s |-> ...]); a Python   *)
(* dict is a TLA+ function whose DOMAIN is its key set; an exception that  *)
(* leaves an expression is the value Raise(name).  The confidence floats   *)
(* 0.85 and 0.3 are written in hundredths (85, 30).  A TLA+ string cannot  *)
(* hold a backquote character: the texts of the knowledge base have an     *)
(* apostrophe in its place.                                                *)
(***************************************************************************)
EXTENDS Integers, Sequences, FiniteSets, TLC

(***************************************************************************)
(* Bounds of the model.                                                    *)
(***************************************************************************)
MaxRequests == 2      \* webhook calls in one behaviour
MaxCalls == 2         \* calls of /analyze and /test in one behaviour

(***************************************************************************)
(* Python values.                                                          *)
(***************************************************************************)
None == [k |-> "None"]
PyStr(s) == [k |-> "str", s |-> s]
PyBytes(b) == [k |-> "bytes", b |-> b]
PyInt(n) == [k |-> "int", n |-> n]
PyList(items) == [k |-> "list", items |-> items]
PyDict(f) == [k |-> "dict", f |-> f]
EmptyDict == PyDict(<<>>)

Raise(exc) == [exception |-> exc]
IsRaised(v) == "exception" \in DOMAIN v

\* isinstance(v, dict)
IsDict(v) == (~IsRaised(v)) /\ v.k = "dict"
\* isinstance(v, str)
IsStr(v) == (~IsRaised(v)) /\ v.k = "str"

\* v.get(key, default): a method of dict only; any other value has no
\* attribute get.
Get(v, key, default) ==
  IF IsRaised(v) THEN v
  ELSE IF v.k = "dict"
       THEN IF key \in DOMAIN v.f THEN v.f[key] ELSE default
       ELSE Raise("AttributeError")

(***************************************************************************)
(* Strings as character sequences, for str.lower() and the "in" operator.  *)
(* Chars[s] spells the string s; its domain is the set of error-type       *)
(* strings the model draws its inputs from, together with the keys of the  *)
(* knowledge base.                                                         *)
(***************************************************************************)
Chars ==
  ("ZeroDivisionError" :> <<"Z","e","r","o","D","i","v","i","s","i","o","n","E","r","r","o","r">>)
  @@ ("AttributeError" :> <<"A","t","t","r","i","b","u","t","e","E","r","r","o","r">>)
  @@ ("KeyError" :> <<"K","e","y","E","r","r","o","r">>)
  @@ ("ConnectionError" :> <<"C","o","n","n","e","c","t","i","o","n","E","r","r","o","r">>)
  @@ ("TimeoutError" :> <<"T","i","m","e","o","u","t","E","r","r","o","r">>)
  @@ ("ValueError" :> <<"V","a","l","u","e","E","r","r","o","r">>)
  @@ ("PermissionError" :> <<"P","e","r","m","i","s","s","i","o","n","E","r","r","o","r">>)
  @@ ("FileNotFoundError" :> <<"F","i","l","e","N","o","t","F","o","u","n","d","E","r","r","o","r">>)
  @@ ("zerodivisionerror" :> <<"z","e","r","o","d","i","v","i","s","i","o","n","e","r","r","o","r">>)
  @@ ("KEYERROR" :> <<"K","E","Y","E","R","R","O","R">>)
  @@ ("builtins.KeyError" :> <<"b","u","i","l","t","i","n","s",".","K","e","y","E","r","r","o","r">>)
  @@ ("asyncio.TimeoutError: timed out" :> <<"a","s","y","n","c","i","o",".","T","i","m","e","o","u","t","E","r","r","o","r",":"," ","t","i","m","e","d"," ","o","u","t">>)
  @@ ("ValueError: KeyError" :> <<"V","a","l","u","e","E","r","r","o","r",":"," ","K","e","y","E","r","r","o","r">>)
  @@ ("KeyErrorValueError" :> <<"K","e","y","E","r","r","o","r","V","a","l","u","e","E","r","r","o","r">>)
  @@ ("FileNotFoundError|ZeroDivisionError" :> <<"F","i","l","e","N","o","t","F","o","u","n","d","E","r","r","o","r","|","Z","e","r","o","D","i","v","i","s","i","o","n","E","r","r","o","r">>)
  @@ ("PermissionError(ConnectionError)" :> <<"P","e","r","m","i","s","s","i","o","n","E","r","r","o","r","(","C","o","n","n","e","c","t","i","o","n","E","r","r","o","r",")">>)
  @@ ("attributeERROR" :> <<"a","t","t","r","i","b","u","t","e","E","R","R","O","R">>)
  @@ ("UnknownError" :> <<"U","n","k","n","o","w","n","E","r","r","o","r">>)
  @@ ("TypeError" :> <<"T","y","p","e","E","r","r","o","r">>)
  @@ ("Error" :> <<"E","r","r","o","r">>)
  @@ ("" :> <<>>)
  @@ ("KeyErro" :> <<"K","e","y","E","r","r","o">>)
  @@ ("Key Error" :> <<"K","e","y"," ","E","r","r","o","r">>)
  @@ ("ZeroDivision" :> <<"Z","e","r","o","D","i","v","i","s","i","o","n">>)
  @@ ("valueerro r" :> <<"v","a","l","u","e","e","r","r","o"," ","r">>)

ErrorTypes == DOMAIN Chars

\* The upper-case letters and their lower-case forms.
UpperCase == <<"A","B","C","D","E","F","G","H","I","J","K","L","M",
               "N","O","P","Q","R","S","T","U","V","W","X","Y","Z">>
LowerCase == <<"a","b","c","d","e","f","g","h","i","j","k","l","m",
               "n","o","p","q","r","s","t","u","v","w","x","y","z">>

LowerChar(c) ==
  IF \E i \in 1..Len(UpperCase) : UpperCase[i] = c
  THEN LowerCase[CHOOSE i \in 1..Len(UpperCase) : UpperCase[i] = c]
  ELSE c

\* cs.lower()
Lower(cs) == [i \in 1..Len(cs) |-> LowerChar(cs[i])]

\* needle in hay
Contains(needle, hay) ==
  \E i \in 0..(Len(hay) - Len(needle)) :
     SubSeq(hay, i + 1, i + Len(needle)) = needle

(***************************************************************************)
(* analyze_error: the knowledge base, in the order of the dict literal,    *)
(* and the first-match lookup.                                             *)
(***************************************************************************)
fix_database ==
  <<
    [ error_key |-> "ZeroDivisionError",
      analysis  |-> "Division by zero detected. The code attempts to divide a number by zero.",
      fix       |-> "Add a check before division: 'if divisor != 0:' or use try-except block.",
      patch     |-> "\n-    result = numerator / divisor\n+    if divisor != 0:\n+        result = numerator / divisor\n+    else:\n+        result = 0  # or raise custom exception\n" ],
    [ error_key |-> "AttributeError",
      analysis  |-> "Attempting to access an attribute on a None object (NullPointerException equivalent).",
      fix       |-> "Add null check before accessing the attribute: 'if obj is not None:'",
      patch     |-> "\n-    return {\"username\": user.name}\n+    if user is not None:\n+        return {\"username\": user.name}\n+    else:\n+        return {\"username\": \"Unknown\"}\n" ],
    [ error_key |-> "KeyError",
      analysis  |-> "Attempting to access a dictionary key that doesn't exist.",
      fix       |-> "Use .get() method with default value: 'dict.get('key', default_value)'",
      patch     |-> "\n-    return {\"email\": api_response[\"email\"]}\n+    return {\"email\": api_response.get(\"email\", \"not_provided@example.com\")}\n" ],
    [ error_key |-> "ConnectionError",
      analysis  |-> "Database or external service connection failed.",
      fix       |-> "Add retry logic with exponential backoff and connection pooling.",
      patch     |-> "\n+import time\n+from functools import wraps\n+\n+def retry_connection(max_retries=3, delay=1):\n+    def decorator(func):\n+        @wraps(func)\n+        def wrapper(*args, **kwargs):\n+            for attempt in range(max_retries):\n+                try:\n+                    return func(*args, **kwargs)\n+                except ConnectionError:\n+                    if attempt < max_retries - 1:\n+                        time.sleep(delay * (2 ** attempt))\n+            raise ConnectionError(\"Max retries exceeded\")\n+        return wrapper\n+    return decorator\n" ],
    [ error_key |-> "TimeoutError",
      analysis  |-> "External service request timed out.",
      fix       |-> "Implement circuit breaker pattern and async requests with timeout handling.",
      patch     |-> "\n+import asyncio\n+\n+async def call_with_timeout(func, timeout=10):\n+    try:\n+        return await asyncio.wait_for(func(), timeout=timeout)\n+    except asyncio.TimeoutError:\n+        return {\"error\": \"Service temporarily unavailable\"}\n" ],
    [ error_key |-> "ValueError",
      analysis  |-> "Invalid value passed to function (e.g., converting non-numeric string to number).",
      fix       |-> "Add input validation before processing.",
      patch     |-> "\n-    total = float(price) * 1.18\n+    try:\n+        total = float(price) * 1.18\n+    except ValueError:\n+        total = 0.0\n+        # Log the error for debugging\n" ],
    [ error_key |-> "PermissionError",
      analysis  |-> "Unauthorized access attempt detected.",
      fix       |-> "Implement proper authentication middleware and role-based access control.",
      patch     |-> "\n+from functools import wraps\n+\n+def require_permission(permission):\n+    def decorator(func):\n+        @wraps(func)\n+        def wrapper(user, *args, **kwargs):\n+            if permission in user.permissions:\n+                return func(user, *args, **kwargs)\n+            raise HTTPException(403, \"Access denied\")\n+        return wrapper\n+    return decorator\n" ],
    [ error_key |-> "FileNotFoundError",
      analysis  |-> "Attempting to read a file that doesn't exist.",
      fix       |-> "Add file existence check and provide fallback configuration.",
      patch     |-> "\n+import os\n+\n-    with open(\"/etc/app/missing-config.yaml\", \"r\") as f:\n-        return {\"config\": f.read()}\n+    config_path = \"/etc/app/missing-config.yaml\"\n+    if os.path.exists(config_path):\n+        with open(config_path, \"r\") as f:\n+            return {\"config\": f.read()}\n+    else:\n+        return {\"config\": \"default_configuration\"}\n" ]
  >>

MatchedConfidence == 85
FallbackConfidence == 30

\* error_key.lower() in error_type.lower()
Matches(error_key, error_type) ==
  Contains(Lower(Chars[error_key]), Lower(Chars[error_type]))

\* A lookup that keeps the last matching entry instead of returning at the
\* first one.
LastMatch(error_type) ==
  IF \E i \in 1..Len(fix_database) : Matches(fix_database[i].error_key, error_type)
  THEN CHOOSE i \in 1..Len(fix_database) :
         /\ Matches(fix_database[i].error_key, error_type)
         /\ \A j \in (i + 1)..Len(fix_database) :
              ~Matches(fix_database[j].error_key, error_type)
  ELSE 0

\* The entry returned by the for error_key, fix_info in ...  loop: the
\* first one, in iteration order, whose key matches; 0 when the loop ends
\* without returning.
FirstMatch(error_type) ==
  IF \E i \in 1..Len(fix_database) : Matches(fix_database[i].error_key, error_type)
  THEN CHOOSE i \in 1..Len(fix_database) :
         /\ Matches(fix_database[i].error_key, error_type)
         /\ \A j \in 1..(i - 1) : ~Matches(fix_database[j].error_key, error_type)
  ELSE 0

MatchedResult(error_type, fix_info) ==
  [ error_type    |-> error_type,
    analysis      |-> fix_info.analysis,
    suggested_fix |-> fix_info.fix,
    patch         |-> PyStr(fix_info.patch),
    confidence    |-> MatchedConfidence ]

\* A fallback that carries an empty patch text instead of None.
DefaultResultEmptyPatch(error_type) ==
  [ error_type    |-> error_type,
    analysis      |-> "Unknown error type: " \o error_type.s
                        \o ". Manual investigation required.",
    suggested_fix |-> "Review the stacktrace and add appropriate error handling.",
    patch         |-> PyStr(""),
    confidence    |-> FallbackConfidence ]

\* Lines 171-177.
DefaultResult(error_type) ==
  [ error_type    |-> error_type,
    analysis      |-> "Unknown error type: " \o error_type.s
                        \o ". Manual investigation required.",
    suggested_fix |-> "Review the stacktrace and add appropriate error handling.",
    patch         |-> None,
    confidence    |-> FallbackConfidence ]

\* A classifier that trusts its result less when no stacktrace comes with
\* the error.
analyze_error_by_stacktrace(error_type, error_message, stacktrace) ==
  IF ~IsStr(error_type)
  THEN Raise("AttributeError")
  ELSE LET m == FirstMatch(error_type.s)
           found == IF m # 0
                    THEN MatchedResult(error_type, fix_database[m])
                    ELSE DefaultResult(error_type)
       IN IF stacktrace = PyStr("")
          THEN [found EXCEPT !.confidence = FallbackConfidence]
          ELSE found

\* error_message and stacktrace are accepted and never read.
analyze_error(error_type, error_message, stacktrace) ==
  IF ~IsStr(error_type)
  THEN Raise("AttributeError")      \* error_type.lower() on a non-string
  ELSE LET m == FirstMatch(error_type.s)
       IN IF m # 0
          THEN MatchedResult(error_type, fix_database[m])
          ELSE DefaultResult(error_type)

(***************************************************************************)
(* Request bodies.  json_loads[b] is the value request.json() produces     *)
(* for the body text b, or the exception it raises.                        *)
(***************************************************************************)
json_loads ==
  ("{\"action\":\"created\",\"data\":{\"error\":{\"type\":\"ZeroDivisionError\"}}}" :>
       PyDict([action |-> PyStr("created"), data |-> PyDict([error |-> PyDict([type |-> PyStr("ZeroDivisionError")])])]))
  @@ ("{\"data\":{\"error\":{\"type\":\"builtins.KeyError\"}}}" :>
       PyDict([data |-> PyDict([error |-> PyDict([type |-> PyStr("builtins.KeyError")])])]))
  @@ ("{\"data\":{\"error\":{\"type\":\"TypeError\"}}}" :>
       PyDict([data |-> PyDict([error |-> PyDict([type |-> PyStr("TypeError")])])]))
  @@ ("{\"data\":{\"error\":{}}}" :>
       PyDict([data |-> PyDict([error |-> EmptyDict])]))
  @@ ("{\"data\":{}}" :>
       PyDict([data |-> EmptyDict]))
  @@ ("{\"action\":\"created\"}" :>
       PyDict([action |-> PyStr("created")]))
  @@ ("{\"data\":\"text\"}" :>
       PyDict([data |-> PyStr("text")]))
  @@ ("{\"data\":null}" :>
       PyDict([data |-> None]))
  @@ ("[]" :>
       PyList(<<>>))
  @@ ("null" :>
       None)
  @@ ("{\"data\":{\"error\":\"boom\"}}" :>
       PyDict([data |-> PyDict([error |-> PyStr("boom")])]))
  @@ ("{\"data\":{\"error\":null}}" :>
       PyDict([data |-> PyDict([error |-> None])]))
  @@ ("{\"data\":{\"error\":{\"type\":null}}}" :>
       PyDict([data |-> PyDict([error |-> PyDict([type |-> None])])]))
  @@ ("{\"data\":{\"error\":{\"type\":500}}}" :>
       PyDict([data |-> PyDict([error |-> PyDict([type |-> PyInt(500)])])]))
  @@ ("not json" :>
       Raise("JSONDecodeError"))
  @@ ("" :>
       Raise("JSONDecodeError"))
  @@ ("{\"data\":" :>
       Raise("JSONDecodeError"))
  @@ ("{\"error_type\":\"KeyError\"}" :>
       PyDict([error_type |-> PyStr("KeyError")]))
  @@ ("{\"error_type\":\"KeyError\",\"error_message\":\"division by zero\",\"stacktrace\":\"Traceback (most recent call last): KeyError: email\"}" :>
       PyDict([error_type |-> PyStr("KeyError"), error_message |-> PyStr("division by zero"), stacktrace |-> PyStr("Traceback (most recent call last): KeyError: email")]))
  @@ ("{\"error_type\":\"TypeError\",\"error_message\":\"division by zero\"}" :>
       PyDict([error_type |-> PyStr("TypeError"), error_message |-> PyStr("division by zero")]))
  @@ ("{}" :>
       EmptyDict)

Bodies == DOMAIN json_loads

\* The bodies sent by the concurrent clients of Spec: one whose issue the
\* deferred task analyzes and one on which the task ends with an exception.
ClientBodies ==
  { "{\"action\":\"created\",\"data\":{\"error\":{\"type\":\"ZeroDivisionError\"}}}",
    "{\"data\":{\"error\":\"boom\"}}" }

\* The identifiers asked of get_issue: those the store can hold, and one
\* it never issues.
QueryIds == { "issue-" \o ToString(n) : n \in 0..MaxRequests }

Requests == 1..MaxRequests
\* The worker thread that serves the list/get requests, one after the other.
\* A read changes nothing another read depends on, so reads in parallel
\* threads behave as they do here.
Readers == { "worker" }

VARIABLES
  issues_store,   \* the list issues_store: a sequence of issue dicts
  clock,          \* the number of datetime.now() calls so far
  loop,           \* the request whose code occupies the event loop, or 0
  pc,             \* pc[r]: where webhook call r and its deferred task are
  body,           \* body[r]: the bytes of the request
  issue,          \* issue[r]: the local issue, a reference into issues_store
  response,       \* response[r]: what the handler returned
  reader,         \* reader[q]: a list/get request in a worker thread
  seen,           \* seen[i]: the latest status a completed read showed of issue i
  call,           \* a direct call of analyze_error and its result
  adhoc           \* the /analyze and /test calls answered so far, in order

vars == << issues_store, clock, loop, pc, body, issue, response, reader, seen,
           call, adhoc >>

NoCall == [state |-> "none"]
Idle == [pc |-> "idle"]

Init ==
  /\ issues_store = << >>
  /\ clock = 0
  /\ loop = 0
  /\ pc = [r \in Requests |-> "idle"]
  /\ body = [r \in Requests |-> ""]
  /\ issue = [r \in Requests |-> 0]
  /\ response = [r \in Requests |-> None]
  /\ reader = [q \in Readers |-> Idle]
  /\ seen = [i \in Requests |-> "unseen"]
  /\ call = NoCall
  /\ adhoc = << >>

(***************************************************************************)
(* receive_sentry_webhook                                                  *)
(***************************************************************************)

\* A webhook call arrives: the handler starts and suspends in
\* await request.json() until the body has been read.
receive_sentry_webhook_start(r, b) ==
  /\ pc[r] = "idle"
  /\ \A s \in 1..(r - 1) : pc[s] # "idle"
  /\ pc' = [pc EXCEPT ![r] = "json"]
  /\ body' = [body EXCEPT ![r] = b]
  /\ UNCHANGED << issues_store, clock, loop, issue, response, reader, seen, call, adhoc >>

\* The payload without the except clause: the exception of request.json()
\* leaves the handler.
request_json(b) == json_loads[b]

\* try: payload = await request.json()
\* except: payload = {"raw": await request.body()}
request_payload(b) ==
  IF IsRaised(json_loads[b])
  THEN PyDict([raw |-> PyBytes(b)])
  ELSE json_loads[b]

\* A sequence number taken from the length alone.
store_length(store) == Len(store)

\* len(issues_store) + 1
next_issue_number(store) == Len(store) + 1

\* issue = {"id": ..., "received_at": ..., "payload": payload, "status": "received"}
new_issue(store, now, p) ==
  [ id          |-> "issue-" \o ToString(next_issue_number(store)),
    received_at |-> now,
    payload     |-> p,
    status      |-> "received" ]

\* A write-back that notes whether it replaced an earlier result.
set_ai_analysis_noted(iss, info) ==
  ("ai_analysis" :> (("replaced" :> ("ai_analysis" \in DOMAIN iss)) @@ info)) @@ iss

\* issue["ai_analysis"] = fix_info
set_ai_analysis(iss, info) == ("ai_analysis" :> info) @@ iss

\* A task that writes another status word.
set_status_processed(iss) == ("status" :> "processed") @@ iss

\* A status change that also stamps the issue with a new time.
set_status_stamped(iss) ==
  ("status" :> "analyzed") @@ ("received_at" :> (iss["received_at"] + 1)) @@ iss

\* issue["status"] = "analyzed"
set_status(iss) == ("status" :> "analyzed") @@ iss

\* An extraction that looks for "error" in the payload itself, not in its
\* "data".
extract_top_level_type(iss) ==
  LET p == IF "payload" \in DOMAIN iss THEN iss["payload"] ELSE EmptyDict
  IN IF IsDict(p)
     THEN Get(Get(p, "error", EmptyDict), "type", PyStr("UnknownError"))
     ELSE PyStr("UnknownError")

\* Lines 270-273.
extract_error_type(iss) ==
  LET p == IF "payload" \in DOMAIN iss THEN iss["payload"] ELSE EmptyDict
      data == IF IsDict(p) THEN Get(p, "data", EmptyDict) ELSE EmptyDict
  IN IF IsDict(data)
     THEN Get(Get(data, "error", EmptyDict), "type", PyStr("UnknownError"))
     ELSE PyStr("UnknownError")

\* Lines 270-276: the classification of an issue, or the exception raised
\* on the way.
issue_analysis(iss) ==
  LET error_type == extract_error_type(iss)
  IN IF IsRaised(error_type) THEN error_type
     ELSE analyze_error(error_type, PyStr(""), PyStr(""))

\* Lines 265-280 on one issue dict: the dict as process_issue leaves it,
\* unchanged when an exception ends the task before line 277.
process_issue(iss) ==
  LET fix_info == issue_analysis(iss)
  IN IF IsRaised(fix_info)
     THEN iss
     ELSE set_status(set_ai_analysis(iss, fix_info))

\* A handler that awaits process_issue(issue) instead of registering it:
\* the store after the task has run on the issue at position i.
run_task_now(store, i) ==
  IF IsRaised(issue_analysis(store[i]))
  THEN store
  ELSE [store EXCEPT ![i] = set_status(set_ai_analysis(@, issue_analysis(@)))]

\* background_tasks.add_task(process_issue, issue) registers the task and
\* leaves the store as it is.
add_task(store, i) == store

\* The handler resumes on the event loop with the body read and runs to its
\* return without another await: lines 243-262.
receive_sentry_webhook(r) ==
  /\ pc[r] = "json"
  /\ loop = 0
  /\ LET p == request_payload(body[r])
         i == Len(issues_store) + 1
     IN IF IsRaised(p)
        THEN /\ pc' = [pc EXCEPT ![r] = "fault"]
             /\ response' = [response EXCEPT ![r] = p]
             /\ UNCHANGED << issues_store, clock, issue >>
        ELSE /\ clock' = clock + 1
             /\ issues_store' =
                  add_task(Append(issues_store, new_issue(issues_store, clock + 1, p)), i)
             /\ issue' = [issue EXCEPT ![r] = i]
             /\ response' = [response EXCEPT ![r] =
                  [status |-> "received", issue_id |-> issues_store'[i]["id"]]]
             /\ pc' = [pc EXCEPT ![r] = "responded"]
  /\ UNCHANGED << loop, body, reader, seen, call, adhoc >>

(***************************************************************************)
(* process_issue, the task registered with background_tasks.add_task.      *)
(***************************************************************************)

\* The framework runs the registered task once the response of the handler
\* has been sent.
task_may_start(r) == pc[r] = "responded"

\* A task that works on the newest issue of the store, not on the issue
\* dict it was registered with.
process_issue_latest(r) ==
  /\ task_may_start(r)
  /\ loop = 0
  /\ LET last == Len(issues_store)
         fix_info == issue_analysis(issues_store[last])
     IN IF IsRaised(fix_info)
        THEN /\ pc' = [pc EXCEPT ![r] = "failed"]
             /\ UNCHANGED << issues_store, loop >>
        ELSE /\ issues_store' =
                  [issues_store EXCEPT ![last] = set_ai_analysis(@, fix_info)]
             /\ pc' = [pc EXCEPT ![r] = "analysis_set"]
             /\ loop' = r
  /\ UNCHANGED << clock, body, issue, response, reader, seen, call, adhoc >>

\* Lines 267-277: extract the error type, classify it and store the result.
\* An exception ends the task.
process_issue_analyze(r) ==
  /\ task_may_start(r)
  /\ loop = 0
  /\ LET fix_info == issue_analysis(issues_store[issue[r]])
     IN IF IsRaised(fix_info)
        THEN /\ pc' = [pc EXCEPT ![r] = "failed"]
             /\ UNCHANGED << issues_store, loop >>
        ELSE /\ issues_store' =
                  [issues_store EXCEPT ![issue[r]] = set_ai_analysis(@, fix_info)]
             /\ pc' = [pc EXCEPT ![r] = "analysis_set"]
             /\ loop' = r
  /\ UNCHANGED << clock, body, issue, response, reader, seen, call, adhoc >>

\* Lines 278-280.
process_issue_finish(r) ==
  /\ pc[r] = "analysis_set"
  /\ loop = r
  /\ issues_store' = [issues_store EXCEPT ![issue[r]] = set_status(@)]
  /\ pc' = [pc EXCEPT ![r] = "done"]
  /\ loop' = 0
  /\ UNCHANGED << clock, body, issue, response, reader, seen, call, adhoc >>

(***************************************************************************)
(* list_issues and get_issue.  The function body runs in a worker thread   *)
(* and returns a reference; the response is built from the referenced      *)
(* object afterwards, on the event loop.                                   *)
(***************************************************************************)

\* A scan that stops one element short of the end of the list.
find_issue_short(store, issue_id) ==
  IF \E i \in 1..(Len(store) - 1) : store[i]["id"] = issue_id
  THEN CHOOSE i \in 1..(Len(store) - 1) :
         /\ store[i]["id"] = issue_id
         /\ \A j \in 1..(i - 1) : store[j]["id"] # issue_id
  ELSE 0

\* A scan that returns only issues the task has finished with.
find_issue_analyzed(store, issue_id) ==
  IF \E i \in 1..Len(store) :
       store[i]["id"] = issue_id /\ store[i]["status"] = "analyzed"
  THEN CHOOSE i \in 1..Len(store) :
         store[i]["id"] = issue_id /\ store[i]["status"] = "analyzed"
  ELSE 0

\* for issue in issues_store: if issue["id"] == issue_id: return issue
\* The position of the first issue with that id; 0 when the loop ends.
find_issue(store, issue_id) ==
  IF \E i \in 1..Len(store) : store[i]["id"] = issue_id
  THEN CHOOSE i \in 1..Len(store) :
         /\ store[i]["id"] = issue_id
         /\ \A j \in 1..(i - 1) : store[j]["id"] # issue_id
  ELSE 0

\* The answer of a handler that raises HTTPException(status_code=404).
NotFoundRaised == Raise("HTTPException")

\* return {"error": "Issue not found"}
NotFound == [error |-> "Issue not found"]

\* Lines 286-289, in a worker thread: len(issues_store) is evaluated now,
\* "issues" is a reference to the list.  known records what the completed
\* reads had shown when this one began, during the task that was between
\* its two writes at that moment.
list_issues(q) ==
  /\ reader[q].pc = "idle"
  /\ reader' = [reader EXCEPT ![q] =
       [pc |-> "returned", op |-> "list", total |-> Len(issues_store),
        known |-> seen, during |-> loop]]
  /\ UNCHANGED << issues_store, clock, loop, pc, body, issue, response, seen, call, adhoc >>

\* Lines 295-298, in a worker thread.
get_issue(q, issue_id) ==
  /\ reader[q].pc = "idle"
  /\ reader' = [reader EXCEPT ![q] =
       [pc |-> "returned", op |-> "get", issue_id |-> issue_id,
        ref |-> find_issue(issues_store, issue_id), known |-> seen,
        during |-> loop]]
  /\ UNCHANGED << issues_store, clock, loop, pc, body, issue, response, seen, call, adhoc >>

\* The content of the response: the returned object as it is when the
\* response is built.
response_content(rd, store) ==
  IF rd.op = "list"
  THEN [total |-> rd.total, issues |-> store]
  ELSE IF rd.ref = 0 THEN NotFound ELSE store[rd.ref]

\* The issues a response shows.
shown_issues(rd, store) ==
  IF rd.op = "list" THEN store
  ELSE IF rd.ref = 0 THEN << >> ELSE << store[rd.ref] >>

\* A response built in the worker thread, at any moment.
send_from_thread(q) == TRUE

\* The response of a read is built on the event loop, between two of the
\* steps that run there.
may_send_response(q) == loop = 0

send_response(q) ==
  /\ reader[q].pc = "returned"
  /\ may_send_response(q)
  /\ LET rd == reader[q]
         issues == shown_issues(rd, issues_store)
     IN seen' = [i \in Requests |->
             IF seen[i] # "analyzed"
                /\ \E k \in 1..Len(issues) : issues[k]["id"] = "issue-" \o ToString(i)
             THEN LET k == CHOOSE k \in 1..Len(issues) :
                                issues[k]["id"] = "issue-" \o ToString(i)
                  IN issues[k]["status"]
             ELSE seen[i]]
  /\ reader' = [reader EXCEPT ![q] = Idle]
  /\ UNCHANGED << issues_store, clock, loop, pc, body, issue, response, call, adhoc >>

(***************************************************************************)
(* The server under concurrent clients.                                    *)
(***************************************************************************)
Next ==
  \/ \E r \in Requests, b \in ClientBodies : receive_sentry_webhook_start(r, b)
  \/ \E r \in Requests : receive_sentry_webhook(r)
  \/ \E r \in Requests : process_issue_analyze(r)
  \/ \E r \in Requests : process_issue_finish(r)
  \/ \E q \in Readers : list_issues(q)
  \/ \E q \in Readers, id \in QueryIds : get_issue(q, id)
  \/ \E q \in Readers : send_response(q)

Spec == Init /\ [][Next]_vars

(***************************************************************************)
(* The server under one client that sends its webhooks one after the       *)
(* other, each with any of the bodies.                                     *)
(***************************************************************************)
Finished(r) == pc[r] \in {"done", "failed", "fault"}

NextShapes ==
  \/ \E r \in Requests, b \in Bodies :
       /\ \A s \in Requests : pc[s] = "idle" \/ Finished(s)
       /\ receive_sentry_webhook_start(r, b)
  \/ \E r \in Requests : receive_sentry_webhook(r)
  \/ \E r \in Requests : process_issue_analyze(r)
  \/ \E r \in Requests : process_issue_finish(r)

SpecShapes == Init /\ [][NextShapes]_vars

(***************************************************************************)
(* analyze_error called directly on each input.                            *)
(***************************************************************************)
ErrorTypeInputs == { PyStr(s) : s \in ErrorTypes } \cup { None, PyInt(404) }
Messages == { PyStr(""), PyStr("division by zero") }
Stacktraces ==
  { PyStr(""), PyStr("Traceback (most recent call last): KeyError: email") }

InitClassify ==
  /\ issues_store = << >>
  /\ clock = 0
  /\ loop = 0
  /\ pc = [r \in Requests |-> "idle"]
  /\ body = [r \in Requests |-> ""]
  /\ issue = [r \in Requests |-> 0]
  /\ response = [r \in Requests |-> None]
  /\ reader = [q \in Readers |-> Idle]
  /\ seen = [i \in Requests |-> "unseen"]
  /\ adhoc = << >>
  /\ \E e \in ErrorTypeInputs, m \in Messages, s \in Stacktraces :
       call = [state |-> "called", error_type |-> e, error_message |-> m,
               stacktrace |-> s]

classify ==
  /\ call.state = "called"
  /\ call' = [state |-> "returned", error_type |-> call.error_type,
              error_message |-> call.error_message, stacktrace |-> call.stacktrace,
              result |-> analyze_error(call.error_type, call.error_message,
                                       call.stacktrace)]
  /\ UNCHANGED << issues_store, clock, loop, pc, body, issue, response, reader,
                  seen, adhoc >>

NextClassify == classify

SpecClassify == InitClassify /\ [][NextClassify]_vars

(***************************************************************************)
(* create_github_pr and the two handlers that call it.                     *)
(***************************************************************************)

\* The text an f-string puts in the place of {v}: str(v).
fstring(v) ==
  IF v = None THEN "None"
  ELSE IF v.k = "str" THEN v.s
  ELSE IF v.k = "int" THEN ToString(v.n)
  ELSE "?"

\* Lines 188-220.  fix_info.get(key, default) takes the default only when
\* the key is missing.  Characters outside ASCII are written as a question
\* mark.
create_github_pr(issue_id, fix_info) ==
  LET branch_name == "fix/sentry-issue-" \o issue_id
      has(key) == key \in DOMAIN fix_info
      title_type == IF has("error_type") THEN fstring(fix_info["error_type"])
                    ELSE "Unknown Error"
      analysis == IF has("analysis") THEN fix_info["analysis"]
                  ELSE "No analysis available"
      suggested_fix == IF has("suggested_fix") THEN fix_info["suggested_fix"]
                       ELSE "No fix suggested"
      patch == IF has("patch") THEN fstring(fix_info["patch"])
               ELSE "No patch available"
      commit_type == IF has("error_type") THEN fstring(fix_info["error_type"])
                     ELSE "error"
  IN [ branch_name |-> branch_name,
       pr_title |-> "[Auto-Fix] " \o title_type,
       pr_body |->
         "\n## ???? AI-Generated Fix\n\n**Issue ID:** " \o issue_id
           \o "\n\n### Analysis\n" \o analysis
           \o "\n\n### Suggested Fix\n" \o suggested_fix
           \o "\n\n### Patch\n'''diff\n" \o patch
           \o "\n'''\n\n---\n*This PR was automatically generated by the MCP AI Debugging System.*\n",
       instructions |->
         "\nTo apply this fix manually:\n1. git checkout -b " \o branch_name
           \o "\n2. Apply the patch above to the relevant file\n3. git commit -m \"fix: "
           \o commit_type \o "\"\n4. git push origin " \o branch_name
           \o "\n5. Create PR on GitHub\n" ]

\* f"manual-{len(issues_store)}"
manual_issue_id(store) == "manual-" \o ToString(Len(store))

\* Lines 307-322: what analyze_manual returns for the value of
\* await request.json(), with the store as it is; an exception raised on
\* the way leaves the handler.
analyze_manual_response(data, store) ==
  LET error_type == Get(data, "error_type", PyStr("UnknownError"))
      error_message == Get(data, "error_message", PyStr(""))
      stacktrace == Get(data, "stacktrace", PyStr(""))
  IN IF IsRaised(error_type) THEN error_type
     ELSE LET fix_info == analyze_error(error_type, error_message, stacktrace)
          IN IF IsRaised(fix_info) THEN fix_info
             ELSE [ status   |-> "success",
                    analysis |-> fix_info,
                    pr_info  |-> create_github_pr(manual_issue_id(store), fix_info) ]

\* An issue id built the way analyze_manual builds its own.
manual_style_issue_id(error_type) == "manual-" \o error_type

\* f"test-{error_type}"
test_issue_id(error_type) == "test-" \o error_type

\* Lines 332-339; the path parameter error_type is a str.
test_analysis_response(error_type) ==
  LET fix_info == analyze_error(PyStr(error_type), PyStr(""), PyStr(""))
  IN [ error_type |-> PyStr(error_type),
       analysis   |-> fix_info,
       pr_info    |-> create_github_pr(test_issue_id(error_type), fix_info) ]

\* The bodies posted to /analyze and the types asked of /test.
ManualBodies ==
  { "{\"error_type\":\"KeyError\"}",
    "{\"error_type\":\"KeyError\",\"error_message\":\"division by zero\",\"stacktrace\":\"Traceback (most recent call last): KeyError: email\"}" }
TestTypes == { "KeyError", "ZeroDivisionError" }

\* The body of the webhooks that arrive while the ad-hoc endpoints are in
\* use.
AdhocWebhookBodies ==
  { "{\"action\":\"created\",\"data\":{\"error\":{\"type\":\"ZeroDivisionError\"}}}" }

\* A handler that files each manual submission as an issue.
analyze_manual_recorded(b) ==
  /\ Len(adhoc) < MaxCalls
  /\ loop = 0
  /\ adhoc' = Append(adhoc,
       [ op |-> "analyze", request |-> b,
         response |-> analyze_manual_response(json_loads[b], issues_store) ])
  /\ issues_store' = Append(issues_store,
       [ id          |-> manual_issue_id(issues_store),
         received_at |-> clock,
         payload     |-> json_loads[b],
         status      |-> "received" ])
  /\ UNCHANGED << clock, loop, pc, body, issue, response, reader, seen, call >>

\* POST /analyze.  The handler reads nothing before await request.json()
\* and runs from there to its return on the event loop.
analyze_manual(b) ==
  /\ Len(adhoc) < MaxCalls
  /\ loop = 0
  /\ adhoc' = Append(adhoc,
       [ op |-> "analyze", request |-> b,
         response |-> analyze_manual_response(json_loads[b], issues_store) ])
  /\ UNCHANGED << issues_store, clock, loop, pc, body, issue, response, reader,
                  seen, call >>

\* GET /test/{error_type}, in a worker thread; it reads no shared state.
test_analysis(error_type) ==
  /\ Len(adhoc) < MaxCalls
  /\ adhoc' = Append(adhoc,
       [ op |-> "test", request |-> error_type,
         response |-> test_analysis_response(error_type) ])
  /\ UNCHANGED << issues_store, clock, loop, pc, body, issue, response, reader,
                  seen, call >>

(***************************************************************************)
(* The server under webhook clients and clients of the two ad-hoc          *)
(* classification endpoints.                                               *)
(***************************************************************************)
NextAdhoc ==
  \/ \E r \in Requests, b \in AdhocWebhookBodies :
       receive_sentry_webhook_start(r, b)
  \/ \E r \in Requests : receive_sentry_webhook(r)
  \/ \E r \in Requests : process_issue_analyze(r)
  \/ \E r \in Requests : process_issue_finish(r)
  \/ \E b \in ManualBodies : analyze_manual(b)
  \/ \E t \in TestTypes : test_analysis(t)

SpecAdhoc == Init /\ [][NextAdhoc]_vars

(***************************************************************************)
(* The two ad-hoc endpoints alone, each with any of its inputs, on the     *)
(* store as it is after start-up.                                          *)
(***************************************************************************)
\* A path parameter is never empty.
PathTypes == ErrorTypes \ { "" }

NextDescribe ==
  \/ \E b \in Bodies : analyze_manual(b)
  \/ \E t \in PathTypes : test_analysis(t)

SpecDescribe == Init /\ [][NextDescribe]_vars

(***************************************************************************)
(* Properties of the server under concurrent clients (Spec).               *)
(***************************************************************************)

\* C1: after N webhook intake calls, in every interleaving of concurrent
\* calls, the ids assigned are pairwise distinct and the ids in the store
\* are exactly issue-1, ..., issue-N.
C1_DenseUniqueIds ==
  LET N == Cardinality({ r \in Requests : pc[r] \notin {"idle", "json"} })
  IN /\ Len(issues_store) = N
     /\ { issues_store[i]["id"] : i \in 1..N }
          = { "issue-" \o ToString(n) : n \in 1..N }
     /\ \A i, j \in 1..N :
          i # j => issues_store[i]["id"] # issues_store[j]["id"]
     /\ \A r \in Requests :
          issue[r] # 0 => response[r].issue_id = issues_store[issue[r]]["id"]
     /\ \A r, s \in Requests :
          (r # s /\ issue[r] # 0 /\ issue[s] # 0)
            => response[r].issue_id # response[s].issue_id

\* Two calls in flight together, the later one resumed first.
C1_Witness ==
  /\ issue[1] = 2
  /\ issue[2] = 1
  /\ response[1].issue_id = "issue-2"
  /\ response[2].issue_id = "issue-1"

\* C2: an issue is created with status received, and the only change of
\* a status is received -> analyzed; no step takes an issue out of the
\* store, renames it, or changes its status in any other way (so the
\* change happens at most once and is never reversed).
C2_StatusOnlyAdvances ==
  [][ /\ Len(issues_store') >= Len(issues_store)
      /\ \A i \in 1..Len(issues_store') :
           IF i > Len(issues_store)
           THEN issues_store'[i]["status"] = "received"
           ELSE /\ issues_store'[i]["id"] = issues_store[i]["id"]
                /\ \/ issues_store'[i]["status"] = issues_store[i]["status"]
                   \/ /\ issues_store[i]["status"] = "received"
                      /\ issues_store'[i]["status"] = "analyzed" ]_vars

\* A task has made its issue analyzed.
C2_Witness ==
  \E r \in Requests :
    /\ pc[r] = "done"
    /\ issues_store[issue[r]]["status"] = "analyzed"

\* C3: every issue created by an intake call is analyzed once its deferred
\* task is no longer pending or running, whatever payload it carries: no
\* task ends any other way.
C3_EveryTaskAnalyzes ==
  \A r \in Requests :
    (issue[r] # 0 /\ pc[r] \notin {"responded", "analysis_set"})
      => /\ pc[r] = "done"
         /\ issues_store[issue[r]]["status"] = "analyzed"
         /\ "ai_analysis" \in DOMAIN issues_store[issue[r]]

\* C6: when the handler has produced its response {status, issue_id} and
\* until the deferred task starts, the issue is still received and carries
\* no classification: the task has not run before the acknowledgement.
C6_AckBeforeClassification ==
  \A r \in Requests :
    pc[r] = "responded"
      => /\ response[r] = [ status   |-> "received",
                            issue_id |-> issues_store[issue[r]]["id"] ]
         /\ issues_store[issue[r]]["status"] = "received"
         /\ "ai_analysis" \notin DOMAIN issues_store[issue[r]]

\* A call acknowledged, its task not yet started.
C6_Witness ==
  \E r \in Requests :
    /\ pc[r] = "responded"
    /\ response[r].status = "received"
    /\ ~IsRaised(issue_analysis(issues_store[issue[r]]))

\* C7: every issue in the response of a list or get request carries a
\* classification result if and only if its status is analyzed, also when
\* the request ran while a task was between its two writes.
C7_NoHalfWrittenRecord ==
  \A q \in Readers :
    (reader[q].pc = "returned" /\ may_send_response(q))
      => LET issues == shown_issues(reader[q], issues_store)
         IN \A k \in 1..Len(issues) :
              ("ai_analysis" \in DOMAIN issues[k])
                <=> (issues[k]["status"] = "analyzed")

\* A read whose function body ran while a task was between its two writes,
\* and whose response shows the issue of that task.
C7_Witness ==
  \E q \in Readers :
    /\ reader[q].pc = "returned"
    /\ may_send_response(q)
    /\ reader[q].during # 0
    /\ LET issues == shown_issues(reader[q], issues_store)
       IN \E k \in 1..Len(issues) :
            /\ issues[k]["id"] = issues_store[issue[reader[q].during]]["id"]
            /\ issues[k]["status"] = "analyzed"

\* C8: a read that begins after a completed read has shown an issue shows
\* that issue again (a list holds it, a get of its id finds it), and shows
\* it analyzed, with its classification, if the earlier read did.
C8_MonotonicReads ==
  \A q \in Readers :
    (reader[q].pc = "returned" /\ may_send_response(q))
      => LET rd == reader[q]
             issues == shown_issues(rd, issues_store)
         IN \A i \in Requests :
              ( /\ rd.known[i] # "unseen"
                /\ (rd.op = "get" => rd.issue_id = "issue-" \o ToString(i)) )
                => /\ response_content(rd, issues_store) # NotFound
                   /\ \E k \in 1..Len(issues) :
                        issues[k]["id"] = "issue-" \o ToString(i)
                   /\ \A k \in 1..Len(issues) :
                        ( /\ issues[k]["id"] = "issue-" \o ToString(i)
                          /\ rd.known[i] = "analyzed" )
                          => /\ issues[k]["status"] = "analyzed"
                             /\ "ai_analysis" \in DOMAIN issues[k]

\* A get of an issue that an earlier read has shown analyzed.
C8_Witness ==
  \E q \in Readers, i \in Requests :
    /\ reader[q].pc = "returned"
    /\ may_send_response(q)
    /\ reader[q].op = "get"
    /\ reader[q].issue_id = "issue-" \o ToString(i)
    /\ reader[q].known[i] = "analyzed"

(***************************************************************************)
(* Properties of the intake of each shape of body (SpecShapes).            *)
(***************************************************************************)

\* C4: for a payload without the path data.error.type (the payload is no
\* mapping, data is missing or no mapping, error is missing or no mapping,
\* type is missing) the deferred task raises nothing, and when it has ended
\* the issue is analyzed with error_type UnknownError and confidence 0.30.
C4_MismatchDefaults ==
  \A r \in Requests :
    issue[r] # 0
      => LET iss == issues_store[issue[r]]
             p == iss["payload"]
             mismatch ==
               \/ ~IsDict(p)
               \/ "data" \notin DOMAIN p.f
               \/ ~IsDict(p.f["data"])
               \/ "error" \notin DOMAIN p.f["data"].f
               \/ ~IsDict(p.f["data"].f["error"])
               \/ "type" \notin DOMAIN p.f["data"].f["error"].f
         IN mismatch
              => /\ pc[r] # "failed"
                 /\ pc[r] = "done"
                      => /\ iss["status"] = "analyzed"
                         /\ iss["ai_analysis"].error_type = PyStr("UnknownError")
                         /\ iss["ai_analysis"].confidence = 30

\* C5: an intake call whose body request.json() cannot parse ends without
\* a fault: it has appended an issue whose payload is {"raw": body}, the
\* response carries the id of that issue, and the issue is received when
\* the handler returns; no intake call ends in a fault.
C5_MalformedBodyAccepted ==
  \A r \in Requests :
    /\ pc[r] # "fault"
    /\ (pc[r] \notin {"idle", "json"} /\ IsRaised(json_loads[body[r]]))
         => /\ issue[r] \in 1..Len(issues_store)
            /\ issues_store[issue[r]]["payload"] = PyDict([raw |-> PyBytes(body[r])])
            /\ response[r] = [ status   |-> "received",
                               issue_id |-> issues_store[issue[r]]["id"] ]
            /\ pc[r] = "responded"
                 => issues_store[issue[r]]["status"] = "received"

\* An unparseable body acknowledged.
C5_Witness ==
  \E r \in Requests :
    /\ body[r] = "not json"
    /\ pc[r] = "responded"
    /\ issues_store[issue[r]]["payload"] = PyDict([raw |-> PyBytes("not json")])
    /\ response[r].status = "received"

(***************************************************************************)
(* Properties of analyze_error (SpecClassify).                             *)
(***************************************************************************)

\* The eight signatures in the order the properties below refer to.
CanonicalOrder ==
  << "ZeroDivisionError", "AttributeError", "KeyError", "ConnectionError",
     "TimeoutError", "ValueError", "PermissionError", "FileNotFoundError" >>

\* The positions in CanonicalOrder of the signatures that the string s
\* contains, letter case ignored.
SignaturesIn(s) ==
  { k \in 1..Len(CanonicalOrder) :
      Contains(Lower(Chars[CanonicalOrder[k]]), Lower(Chars[s])) }

\* C9: for an error_type that contains, case-insensitively, at least one
\* signature, analyze_error returns confidence 0.85 with the analysis, fix
\* and patch of the first signature in the canonical order that it
\* contains.
C9_FirstSignatureWins ==
  (call.state = "returned" /\ IsStr(call.error_type)
     /\ SignaturesIn(call.error_type.s) # {})
    => LET hits == SignaturesIn(call.error_type.s)
           first == CHOOSE k \in hits : \A j \in hits : k <= j
           entry == CHOOSE e \in { fix_database[i] : i \in 1..Len(fix_database) } :
                      e.error_key = CanonicalOrder[first]
       IN /\ call.result.confidence = 85
          /\ call.result.analysis = entry.analysis
          /\ call.result.suggested_fix = entry.fix
          /\ call.result.patch = PyStr(entry.patch)
          /\ call.result.error_type = call.error_type

\* An error_type that contains two signatures, the later one first in the
\* text.
C9_Witness ==
  /\ call.state = "returned"
  /\ call.error_type = PyStr("ValueError: KeyError")
  /\ call.result.confidence = 85
  /\ call.result.analysis
       = "Attempting to access a dictionary key that doesn't exist."

\* C10: for an error_type that contains none of the signatures,
\* analyze_error returns confidence 0.30, no patch, the analysis
\* "Unknown error type: <error_type>. Manual investigation required." and
\* the error_type it was given.
C10_FallbackResult ==
  (call.state = "returned" /\ IsStr(call.error_type)
     /\ SignaturesIn(call.error_type.s) = {})
    => /\ call.result.confidence = 30
       /\ call.result.patch = None
       /\ call.result.analysis
            = "Unknown error type: " \o call.error_type.s
                \o ". Manual investigation required."
       /\ call.result.error_type = call.error_type

\* A signature cut short by one letter.
C10_Witness ==
  /\ call.state = "returned"
  /\ call.error_type = PyStr("KeyErro")
  /\ call.result.confidence = 30
  /\ call.result.patch = None
  /\ call.result.analysis
       = "Unknown error type: KeyErro. Manual investigation required."

(***************************************************************************)
(* Properties of the ad-hoc classification endpoints (SpecAdhoc).          *)
(***************************************************************************)

\* C11: any two calls of analyze_error with the same error_type return the
\* same result, whatever message and stacktrace came with them and whatever
\* ran before or between them: the results in the answers of /analyze
\* and /test and those stored by process_issue agree per error_type.
C11_ClassificationDeterministic ==
  LET answered == { adhoc[i].response.analysis :
                      i \in { j \in 1..Len(adhoc) : ~IsRaised(adhoc[j].response) } }
      stored == { issues_store[i]["ai_analysis"] :
                    i \in { j \in 1..Len(issues_store) :
                              "ai_analysis" \in DOMAIN issues_store[j] } }
  IN \A a, b \in answered \cup stored : a.error_type = b.error_type => a = b

\* Two /analyze calls for KeyError, the second with a message and a
\* stacktrace and after two webhooks had come in between.
C11_Witness ==
  /\ Len(adhoc) = 2
  /\ adhoc[1].request = "{\"error_type\":\"KeyError\"}"
  /\ adhoc[1].response.pr_info.branch_name = "fix/sentry-issue-manual-0"
  /\ adhoc[2].op = "analyze"
  /\ adhoc[2].request # adhoc[1].request
  /\ adhoc[2].response.pr_info.branch_name = "fix/sentry-issue-manual-2"
  /\ adhoc[2].response.analysis = adhoc[1].response.analysis
  /\ \E i \in 1..Len(issues_store) : issues_store[i]["status"] = "analyzed"

\* C13: a call of /analyze or /test leaves the output of list_issues as it
\* was: the same total and the same issues before and after it.
C13_AdhocLeavesStoreAlone ==
  [][ Len(adhoc') > Len(adhoc)
        => response_content([op |-> "list", total |-> Len(issues_store')],
                            issues_store')
             = response_content([op |-> "list", total |-> Len(issues_store)],
                                issues_store) ]_vars

\* A call of each endpoint answered with issues in the store.
C13_Witness ==
  /\ Len(adhoc) = 2
  /\ adhoc[1].op = "analyze"
  /\ adhoc[1].response.pr_info.branch_name = "fix/sentry-issue-manual-1"
  /\ adhoc[2].op = "test"
  /\ Len(issues_store) >= 1

\* C14: two /analyze calls with the same body get the same response, PR
\* descriptor included, whatever the store holds at each of them.
C14_AnalyzeIndependentOfStore ==
  \A i, j \in 1..Len(adhoc) :
    ( /\ adhoc[i].op = "analyze"
      /\ adhoc[j].op = "analyze"
      /\ adhoc[i].request = adhoc[j].request )
      => adhoc[i].response = adhoc[j].response

(***************************************************************************)
(* Further properties of the server under concurrent clients (Spec).       *)
(***************************************************************************)

\* C12: when get_issue runs, it finds nothing for an id that no stored
\* issue has and it finds the stored issue with that id otherwise; its
\* response is then the sentinel {"error": "Issue not found"}, not a fault,
\* or that issue.
C12_GetSentinelOrIssue ==
  [][ \A q \in Readers :
        /\ ( /\ reader[q].pc = "idle"
             /\ reader'[q].pc = "returned"
             /\ reader'[q].op = "get" )
             => LET id == reader'[q].issue_id
                    ids == { issues_store[i]["id"] : i \in 1..Len(issues_store) }
                IN /\ id \notin ids => reader'[q].ref = 0
                   /\ id \in ids
                        => /\ reader'[q].ref \in 1..Len(issues_store)
                           /\ issues_store[reader'[q].ref]["id"] = id
        /\ ( /\ reader[q].pc = "returned"
             /\ reader[q].op = "get"
             /\ reader'[q].pc = "idle" )
             => LET content == response_content(reader[q], issues_store)
                IN /\ ~IsRaised(content)
                   /\ IF reader[q].ref = 0
                      THEN content = [error |-> "Issue not found"]
                      ELSE /\ content = issues_store[reader[q].ref]
                           /\ content["id"] = reader[q].issue_id ]_vars

\* A get of an id that is never issued, with issues in the store.
C12_Witness ==
  \E q \in Readers :
    /\ reader[q].pc = "returned"
    /\ reader[q].op = "get"
    /\ reader[q].issue_id = "issue-0"
    /\ reader[q].ref = 0
    /\ may_send_response(q)
    /\ Len(issues_store) >= 1

\* C16: the response of list_issues holds the issues in insertion order
\* (the i-th has id issue-i) and its total is the number of issues it
\* holds, also when webhooks arrive while the request is served.
C16_ListTotalAndOrder ==
  \A q \in Readers :
    (reader[q].pc = "returned" /\ reader[q].op = "list" /\ may_send_response(q))
      => LET content == response_content(reader[q], issues_store)
         IN /\ content.total = Len(content.issues)
            /\ \A i \in 1..Len(content.issues) :
                 content.issues[i]["id"] = "issue-" \o ToString(i)

C20_FrameOfTaskAndReads ==
  [][ /\ Len(issues_store') >= Len(issues_store)
      /\ \A i \in 1..Len(issues_store) :
           /\ issues_store'[i]["id"] = issues_store[i]["id"]
           /\ issues_store'[i]["received_at"] = issues_store[i]["received_at"]
           /\ issues_store'[i]["payload"] = issues_store[i]["payload"]
      /\ \A r \in Requests :
           (pc[r] \in {"responded", "analysis_set"} /\ pc'[r] # pc[r])
             => /\ Len(issues_store') = Len(issues_store)
                /\ \A i \in 1..Len(issues_store) :
                     i # issue[r] => issues_store'[i] = issues_store[i]
                /\ DOMAIN issues_store'[issue[r]]
                     \subseteq (DOMAIN issues_store[issue[r]] \cup {"ai_analysis"})
                /\ \A key \in DOMAIN issues_store[issue[r]] \ {"status", "ai_analysis"} :
                     issues_store'[issue[r]][key] = issues_store[issue[r]][key]
      /\ reader' # reader => issues_store' = issues_store ]_vars

\* A task has ended beside another issue, and a read is being served.
C20_Witness ==
  /\ Len(issues_store) = 2
  /\ issues_store[1]["status"] = "analyzed"
  /\ issues_store[2]["status"] = "received"
  /\ \E q \in Readers : reader[q].pc = "returned"

(***************************************************************************)
(* Further properties of the intake of each shape of body (SpecShapes).    *)
(***************************************************************************)

\* C15: for a webhook whose payload has a string at data.error.type, the
\* deferred task raises nothing and, once it has ended, the issue is
\* analyzed and its ai_analysis is analyze_error of that string; the first
\* intake, with type ZeroDivisionError, is acknowledged with issue-1 and
\* ends with the ZeroDivisionError analysis and confidence 0.85.
C15_EndToEnd ==
  \A r \in Requests :
    issue[r] # 0
      => LET iss == issues_store[issue[r]]
             p == iss["payload"]
             has_type ==
               /\ IsDict(p)
               /\ "data" \in DOMAIN p.f
               /\ IsDict(p.f["data"])
               /\ "error" \in DOMAIN p.f["data"].f
               /\ IsDict(p.f["data"].f["error"])
               /\ "type" \in DOMAIN p.f["data"].f["error"].f
               /\ IsStr(p.f["data"].f["error"].f["type"])
         IN has_type
              => LET type == p.f["data"].f["error"].f["type"]
                 IN /\ pc[r] # "failed"
                    /\ pc[r] = "done"
                         => /\ iss["status"] = "analyzed"
                            /\ iss["ai_analysis"]
                                 = analyze_error(type, PyStr(""), PyStr(""))
                            /\ iss["ai_analysis"].error_type = type
                    /\ (issue[r] = 1 /\ type = PyStr("ZeroDivisionError"))
                         => /\ response[r].issue_id = "issue-1"
                            /\ pc[r] = "done"
                                 => /\ iss["ai_analysis"].confidence = 85
                                    /\ iss["ai_analysis"].analysis
                                         = "Division by zero detected. The code attempts to divide a number by zero."

\* The first webhook, of type ZeroDivisionError, analyzed.
C15_Witness ==
  \E r \in Requests :
    /\ issue[r] = 1
    /\ pc[r] = "done"
    /\ response[r] = [status |-> "received", issue_id |-> "issue-1"]
    /\ body[r] = "{\"action\":\"created\",\"data\":{\"error\":{\"type\":\"ZeroDivisionError\"}}}"
    /\ issues_store[1]["status"] = "analyzed"
    /\ issues_store[1]["ai_analysis"].confidence = 85

(***************************************************************************)
(* Properties of the PR descriptor (SpecDescribe).                         *)
(***************************************************************************)

\* C17: the PR descriptor in an answer of /test/{t} or /analyze has
\* branch_name "fix/sentry-issue-" + issue id, where the issue id is
\* "test-" + t for /test/{t}, and pr_title "[Auto-Fix] " + the error_type
\* of the classification result; /test/KeyError yields branch_name
\* fix/sentry-issue-test-KeyError with confidence 0.85.
C17_BranchAndTitle ==
  \A i \in 1..Len(adhoc) :
    ~IsRaised(adhoc[i].response)
      => LET a == adhoc[i]
             issue_id == IF a.op = "test"
                         THEN "test-" \o a.request
                         ELSE "manual-" \o ToString(Len(issues_store))
         IN /\ a.response.pr_info.branch_name = "fix/sentry-issue-" \o issue_id
            /\ a.response.pr_info.pr_title
                 = "[Auto-Fix] " \o a.response.analysis.error_type.s
            /\ (a.op = "test" /\ a.request = "KeyError")
                 => /\ a.response.pr_info.branch_name
                         = "fix/sentry-issue-test-KeyError"
                    /\ a.response.analysis.confidence = 85

\* /test/KeyError answered.
C17_Witness ==
  \E i \in 1..Len(adhoc) :
    /\ adhoc[i].op = "test"
    /\ adhoc[i].request = "KeyError"
    /\ adhoc[i].response.pr_info.branch_name = "fix/sentry-issue-test-KeyError"
    /\ adhoc[i].response.pr_info.pr_title = "[Auto-Fix] KeyError"
    /\ adhoc[i].response.analysis.confidence = 85

\* C19: when the classification result has no patch, the Patch section of
\* pr_body is an empty code block or no code block: the text between the
\* heading and the closing rule holds nothing that stands for the missing
\* patch.
C19_NoPatchRendersEmpty ==
  \A i \in 1..Len(adhoc) :
    (~IsRaised(adhoc[i].response) /\ adhoc[i].response.analysis.patch = None)
      => LET a == adhoc[i]
             issue_id == IF a.op = "test"
                         THEN "test-" \o a.request
                         ELSE "manual-" \o ToString(Len(issues_store))
             head == "\n## ???? AI-Generated Fix\n\n**Issue ID:** " \o issue_id
                       \o "\n\n### Analysis\n" \o a.response.analysis.analysis
                       \o "\n\n### Suggested Fix\n"
                       \o a.response.analysis.suggested_fix
                       \o "\n\n### Patch\n"
             foot == "\n---\n*This PR was automatically generated by the MCP AI Debugging System.*\n"
         IN a.response.pr_info.pr_body
              \in { head \o "'''diff\n\n'''\n" \o foot,
                    head \o "'''diff\n'''\n" \o foot,
                    head \o foot }

(***************************************************************************)
(* The acknowledgement of a webhook and the reads that follow it.          *)
(***************************************************************************)

\* The webhook calls whose handler has returned {"status": "received",
\* "issue_id": ...}.
Acknowledged(r) == pc[r] \in {"responded", "analysis_set", "done", "failed"}

\* C21: a get_issue that runs once a webhook call has been acknowledged
\* with issue_id, asked for that id, finds the stored issue with that id,
\* and the response built for it is that issue, with status "received" or
\* "analyzed", not the sentinel {"error": "Issue not found"}.
C21_AcknowledgedIssueIsFound ==
  [][ \A q \in Readers :
        /\ ( /\ reader[q].pc = "idle"
             /\ reader'[q].pc = "returned"
             /\ reader'[q].op = "get" )
             => \A r \in Requests :
                  ( /\ Acknowledged(r)
                    /\ response[r].issue_id = reader'[q].issue_id )
                    => /\ reader'[q].ref = issue[r]
                       /\ reader'[q].ref \in 1..Len(issues_store)
                       /\ issues_store[reader'[q].ref]["id"] = response[r].issue_id
        /\ ( /\ reader[q].pc = "returned"
             /\ reader[q].op = "get"
             /\ reader'[q].pc = "idle" )
             => \A r \in Requests :
                  ( /\ Acknowledged(r)
                    /\ reader[q].ref = issue[r] )
                    => LET content == response_content(reader[q], issues_store)
                       IN /\ content # NotFound
                          /\ "error" \notin DOMAIN content
                          /\ content["id"] = response[r].issue_id
                          /\ content["status"] \in {"received", "analyzed"} ]_vars

\* The response of a get for an acknowledged id has been sent while the
\* issue was still "received", and a second get for it has returned.
C21_Witness ==
  \E q \in Readers, r \in Requests :
    /\ Acknowledged(r)
    /\ seen[issue[r]] = "received"
    /\ reader[q].pc = "returned"
    /\ reader[q].op = "get"
    /\ reader[q].issue_id = response[r].issue_id
    /\ reader[q].ref = issue[r]
    /\ issues_store[issue[r]]["status"] = "analyzed"

(***************************************************************************)
(* The deferred tasks of different issues.                                 *)
(***************************************************************************)

\* The issue of webhook call r as lines 248-255 stored it: the i-th issue
\* of the store, received at the i-th reading of the time.
received_issue(r) ==
  new_issue(SubSeq(issues_store, 1, issue[r] - 1), issue[r],
            request_payload(body[r]))

\* The task of call r has run to its end, by returning or by raising.
task_ended(r) == pc[r] \in {"done", "failed"}

\* The store that the intakes alone determine: every issue as process_issue
\* makes it from the issue as received.
store_after_tasks ==
  [ i \in 1..Len(issues_store) |->
      LET r == CHOOSE r \in Requests : issue[r] = i
      IN process_issue(received_issue(r)) ]

\* C22: the tasks of different issues commute.  Once the tasks of all the
\* calls have ended, the store is the one the intakes alone determine, in
\* whichever order the tasks ran and the intakes fell between them.  On the
\* way there, a step of the task of one issue leaves every other issue and
\* the length of the store as they are; the step that ends the task leaves
\* its issue as process_issue makes it from the issue as received; and an
\* issue whose task has ended stays as it is in every later step, also in
\* the intake of another issue.
C22_TasksCommute ==
  /\ []( (\A r \in Requests : task_ended(r))
           => issues_store = store_after_tasks )
  /\ [][ \A r \in Requests :
          /\ (pc[r] \in {"responded", "analysis_set"} /\ pc'[r] # pc[r])
               => /\ Len(issues_store') = Len(issues_store)
                  /\ \A i \in 1..Len(issues_store) :
                       i # issue[r] => issues_store'[i] = issues_store[i]
          /\ (~task_ended(r) /\ pc'[r] \in {"done", "failed"})
               => issues_store'[issue[r]] = process_issue(received_issue(r))
          /\ task_ended(r)
               => /\ pc'[r] = pc[r]
                  /\ issues_store'[issue[r]] = issues_store[issue[r]] ]_vars

\* The task of the second issue has ended while the task of the first has
\* not begun.
C22_Witness ==
  \E r \in Requests, s \in Requests :
    /\ issue[r] = 2
    /\ pc[r] = "done"
    /\ issue[s] = 1
    /\ pc[s] = "responded"

=============================================================================
